---------------------------- MODULE Spec2Model ----------------------------
(***************************************************************************)
(* A model of the geometric operations of Augmentor/Operations.py:         *)
(* Distort (mesh generation), Skew (corner table and projective solve),    *)
(* Rotate and RotateRange (crop window) and Shear (offset and crop         *)
(* window).  Each perform_operation is an action (the perturbation loop of *)
(* Distort is one action per iteration); the values drawn from `random`    *)
(* are the actions' nondeterministic inputs.                               *)
(***************************************************************************)
EXTENDS Integers, Sequences, FiniteSets, TLC

VARIABLES
    probability,      \* Operation.probability of each operation object
    calls,            \* history: the operations called so far, oldest first
    d_image,          \* Distort: image.size, <<w, h>>
    grid_width,       \* Distort.grid_width
    grid_height,      \* Distort.grid_height
    magnitude,        \* Distort.magnitude
    randomise_magnitude,  \* Distort.randomise_magnitude
    d_pc,             \* Distort.perform_operation: "idle", "loop", "done"
    dimensions,       \* the list `dimensions` (cell bounding boxes)
    polygons,         \* the list `polygons` (8 numbers per cell)
    polygon_indices,  \* the list `polygon_indices`
    d_next,           \* position of the loop over polygon_indices (1-based)
    draws,            \* history: the (dx, dy) drawn so far in this call
    generated_mesh,   \* the mesh handed to image.transform
    d_result,         \* how the last call ended: "none", "image" or an exception
    s_image,          \* Skew: image.size, <<w, h>>
    skew_type,        \* Skew.skew_type
    skew_magnitude,   \* Skew.magnitude (0 stands for every falsy value)
    s_pc,             \* Skew.perform_operation: "idle", "done"
    skew_amount,      \* the local skew_amount of the last call
    skew_direction,   \* the local skew_direction of the last call
    original_plane,   \* the local original_plane
    new_plane,        \* the local new_plane
    coefficients,     \* perspective_skew_coefficients_matrix, <<>> when unspecified
    s_result,         \* how the last call ended: "none", "image" or an exception
    r_image,          \* Rotate: the image passed to perform_operation
    rotation,         \* Rotate.rotation
    r_pc,             \* Rotate.perform_operation: "idle", "done"
    r_steps,          \* the image primitives the last call has run, in order
    r_canvas,         \* the locals <<X, Y>>, <<>> when not assigned
    r_E,              \* the local E
    r_A,              \* the local A
    r_box,            \* the box given to image.crop, <<>> when not assigned
    r_result,         \* how the last call ended, and the image it returned
    rr_image,         \* RotateRange: image.size, <<x, y>>
    max_left_rotation,   \* RotateRange.max_left_rotation
    max_right_rotation,  \* RotateRange.max_right_rotation
    rr_pc,            \* RotateRange.perform_operation: "idle", "done"
    rr_rotation,      \* the local rotation
    rr_canvas,        \* the locals <<X, Y>>, <<>> when not assigned
    rr_E,             \* the local E
    rr_A,             \* the local A
    rr_box,           \* the box given to image.crop, <<>> when not assigned
    rr_result,        \* how the last call ended, and the size of the image returned
    sh_image,         \* Shear: image.size, <<width, height>>
    max_shear_left,   \* Shear.max_shear_left
    max_shear_right,  \* Shear.max_shear_right
    sh_pc,            \* Shear.perform_operation: "idle", "done"
    angle_to_shear,   \* the local angle_to_shear
    shear_direction,  \* the local direction, "x" or "y"
    shear_phi,        \* the local phi, as it is when the matrix is built
    shift_in_pixels,  \* the local shift_in_pixels, as it is when the image is cropped
    matrix_offset,    \* the local matrix_offset
    transform_matrix, \* the local transform_matrix, <<>> when not assigned
    sh_canvas,        \* the size given to image.transform, <<>> when not assigned
    sh_box,           \* the box given to image.crop, <<>> when not assigned
    sh_result         \* how the last call ended, and the size of the image returned

distortVars == <<d_image, grid_width, grid_height, magnitude,
                 randomise_magnitude, d_pc, dimensions, polygons,
                 polygon_indices, d_next, draws, generated_mesh, d_result>>

skewVars == <<s_image, skew_type, skew_magnitude, s_pc, skew_amount,
              skew_direction, original_plane, new_plane, coefficients, s_result>>

rotateVars == <<r_image, rotation, r_pc, r_steps, r_canvas, r_E, r_A, r_box,
                r_result>>

rangeVars == <<rr_image, max_left_rotation, max_right_rotation, rr_pc,
               rr_rotation, rr_canvas, rr_E, rr_A, rr_box, rr_result>>

shearVars == <<sh_image, max_shear_left, max_shear_right, sh_pc, angle_to_shear,
               shear_direction, shear_phi, shift_in_pixels, matrix_offset,
               transform_matrix,
               sh_canvas, sh_box, sh_result>>

vars == <<probability, calls, distortVars, skewVars, rotateVars, rangeVars,
          shearVars>>

-----------------------------------------------------------------------------
(* Bounds of the model *)

MaxCells == 9          \* grids of at most this many cells
MaxMagnitude == 2      \* Distort magnitudes 0..MaxMagnitude
MaxDrawWork == 4       \* all draws are enumerated while vertices * magnitude <= this
MaxWidth == 7
MaxHeight == 5

MaxRotateWidth == 4    \* Rotate: images of 1..MaxRotateWidth by 1..MaxRotateHeight
MaxRotateHeight == 3
MaxSkewMagnitude == 3  \* Skew magnitudes -MaxSkewMagnitude..MaxSkewMagnitude
MaxShearWidth == 4     \* Shear: images of 1..MaxShearWidth by 1..MaxShearHeight
MaxShearHeight == 4
MaxInvalid == 2        \* invalid Distort grids: dimensions down to -MaxInvalid
MaxCalls == 2          \* the history `calls` keeps the first MaxCalls calls

\* a small image (smaller than some grids) and a larger one with remainders
ImageSizes == {<<2, 3>>, <<MaxWidth, MaxHeight>>}

Grids == {g \in (1..MaxCells) \X (1..MaxCells) : g[1] * g[2] <= MaxCells}

InteriorVertices(gw, gh) == (gw - 1) * (gh - 1)

\* the pairs (dx, dy) of random.randint(-m, m) values the model enumerates: all
\* of them for the small meshes; for a mesh with too many vertices the two
\* opposite extremes and no displacement
DrawValues(m, vertices) ==
    IF vertices * m <= MaxDrawWork
    THEN ((-m)..m) \X ((-m)..m)
    ELSE {<<-m, m>>, <<0, 0>>, <<m, -m>>}

-----------------------------------------------------------------------------
(* Exact rational arithmetic.  A number is <<numerator, denominator>> in     *)
(* lowest terms with a positive denominator; it stands for a float of the    *)
(* code, without the rounding of the floating-point operations.              *)

Abs(n) == IF n < 0 THEN -n ELSE n

RECURSIVE GCD(_, _)
GCD(a, b) == IF b = 0 THEN a ELSE GCD(b, a % b)

\* n / d, for d # 0
Rat(n, d) ==
    LET sgn == IF d < 0 THEN -1 ELSE 1
        g   == GCD(Abs(n), Abs(d))
    IN  <<(sgn * n) \div g, (sgn * d) \div g>>

RInt(n) == <<n, 1>>

\* the sum and the difference, over the least common denominator
RAdd(a, b) ==
    LET g == GCD(a[2], b[2])
    IN  Rat(a[1] * (b[2] \div g) + b[1] * (a[2] \div g), (a[2] \div g) * b[2])

RSub(a, b) ==
    LET g == GCD(a[2], b[2])
    IN  Rat(a[1] * (b[2] \div g) - b[1] * (a[2] \div g), (a[2] \div g) * b[2])
RMul(a, b) == Rat(a[1] * b[1], a[2] * b[2])
RDiv(a, b) == Rat(a[1] * b[2], a[2] * b[1])
RNeg(a) == <<-a[1], a[2]>>
RLess(a, b) == a[1] * b[2] < b[1] * a[2]
RIsZero(a) == a[1] = 0

-----------------------------------------------------------------------------
(* Distort.perform_operation, lines 840-929 *)

\* int(floor(w / float(horizontal_tiles))), for horizontal_tiles # 0
width_of_square(w, horizontal_tiles) ==
    IF horizontal_tiles > 0
    THEN w \div horizontal_tiles
    ELSE -((w + (-horizontal_tiles) - 1) \div (-horizontal_tiles))

height_of_square(h, vertical_tiles) ==
    IF vertical_tiles > 0
    THEN h \div vertical_tiles
    ELSE -((h + (-vertical_tiles) - 1) \div (-vertical_tiles))

\* mutant: the last column is as wide as the others (the remainder is dropped)
width_of_last_square_NoRemainder(w, horizontal_tiles) ==
    width_of_square(w, horizontal_tiles)

width_of_last_square(w, horizontal_tiles) ==
    w - (width_of_square(w, horizontal_tiles) * (horizontal_tiles - 1))

height_of_last_square(h, vertical_tiles) ==
    h - (height_of_square(h, vertical_tiles) * (vertical_tiles - 1))

\* one entry of `dimensions`: the four branches of lines 857-876
CellBox(w, h, horizontal_tiles, vertical_tiles, horizontal_tile, vertical_tile) ==
    LET ws  == width_of_square(w, horizontal_tiles)
        hs  == height_of_square(h, vertical_tiles)
        wl  == width_of_last_square(w, horizontal_tiles)
        hl  == height_of_last_square(h, vertical_tiles)
    IN  IF vertical_tile = vertical_tiles - 1 /\ horizontal_tile = horizontal_tiles - 1
        THEN <<horizontal_tile * ws, vertical_tile * hs,
               wl + (horizontal_tile * ws), hl + (hs * vertical_tile)>>
        ELSE IF vertical_tile = vertical_tiles - 1
        THEN <<horizontal_tile * ws, vertical_tile * hs,
               ws + (horizontal_tile * ws), hl + (hs * vertical_tile)>>
        ELSE IF horizontal_tile = horizontal_tiles - 1
        THEN <<horizontal_tile * ws, vertical_tile * hs,
               wl + (horizontal_tile * ws), hs + (hs * vertical_tile)>>
        ELSE <<horizontal_tile * ws, vertical_tile * hs,
               ws + (horizontal_tile * ws), hs + (hs * vertical_tile)>>

\* the nested loops of lines 855-876: row-major, cell i of the code is entry i+1;
\* range(n) is empty for n <= 0
Dimensions(w, h, horizontal_tiles, vertical_tiles) ==
    IF horizontal_tiles <= 0 \/ vertical_tiles <= 0
    THEN <<>>
    ELSE [n \in 1..(horizontal_tiles * vertical_tiles) |->
             CellBox(w, h, horizontal_tiles, vertical_tiles,
                     (n - 1) % horizontal_tiles, (n - 1) \div horizontal_tiles)]

last_column(horizontal_tiles, vertical_tiles) ==
    {(horizontal_tiles - 1) + horizontal_tiles * i : i \in 0..(vertical_tiles - 1)}

last_row(horizontal_tiles, vertical_tiles) ==
    ((horizontal_tiles * vertical_tiles) - horizontal_tiles)
        .. ((horizontal_tiles * vertical_tiles) - 1)

\* mutant: the corners are listed as Skew lists them (NW, NE, SE, SW)
PolygonOf_SkewOrder(box) ==
    <<box[1], box[2], box[3], box[2], box[3], box[4], box[1], box[4]>>

\* line 890: [x1, y1, x1, y2, x2, y2, x2, y1]
PolygonOf(box) ==
    <<box[1], box[2], box[1], box[4], box[3], box[4], box[3], box[2]>>

Polygons(dims) == [n \in 1..Len(dims) |-> PolygonOf(dims[n])]

\* mutant: the test `i not in last_column` is missing
PolygonIndices_LastColumnKept(horizontal_tiles, vertical_tiles) ==
    LET count == (vertical_tiles * horizontal_tiles) - 1
        all   == [n \in 1..count |-> n - 1]
        keep(i) == i \notin last_row(horizontal_tiles, vertical_tiles)
        kept  == SelectSeq(all, keep)
    IN  [n \in 1..Len(kept) |->
            <<kept[n], kept[n] + 1, kept[n] + horizontal_tiles,
              kept[n] + 1 + horizontal_tiles>>]

\* lines 892-895: the cells (0-based) that own an interior vertex, in order
PolygonIndices(horizontal_tiles, vertical_tiles) ==
    LET count == (vertical_tiles * horizontal_tiles) - 1
        all   == [n \in 1..count |-> n - 1]
        keep(i) == /\ i \notin last_row(horizontal_tiles, vertical_tiles)
                   /\ i \notin last_column(horizontal_tiles, vertical_tiles)
        kept  == SelectSeq(all, keep)
    IN  [n \in 1..Len(kept) |->
            <<kept[n], kept[n] + 1, kept[n] + horizontal_tiles,
              kept[n] + 1 + horizontal_tiles>>]

\* mutant: polygons[a] gets the displacement at its first corner, not its third
PerturbA_FirstCorner(polys, a, dx, dy) ==
    LET p == polys[a + 1]
    IN  [polys EXCEPT ![a + 1] =
            <<p[1] + dx, p[2] + dy, p[3], p[4], p[5], p[6], p[7], p[8]>>]

\* lines 901-923: the four assignments of one loop iteration, in order
PerturbA(polys, a, dx, dy) ==
    LET p == polys[a + 1]
    IN  [polys EXCEPT ![a + 1] =
            <<p[1], p[2], p[3], p[4], p[5] + dx, p[6] + dy, p[7], p[8]>>]

PerturbB(polys, b, dx, dy) ==
    LET p == polys[b + 1]
    IN  [polys EXCEPT ![b + 1] =
            <<p[1], p[2], p[3] + dx, p[4] + dy, p[5], p[6], p[7], p[8]>>]

\* mutant: polygons[c] gets the displacement at its second corner, not its fourth
PerturbC_WrongCorner(polys, c, dx, dy) ==
    LET p == polys[c + 1]
    IN  [polys EXCEPT ![c + 1] =
            <<p[1], p[2], p[3] + dx, p[4] + dy, p[5], p[6], p[7], p[8]>>]

PerturbC(polys, c, dx, dy) ==
    LET p == polys[c + 1]
    IN  [polys EXCEPT ![c + 1] =
            <<p[1], p[2], p[3], p[4], p[5], p[6], p[7] + dx, p[8] + dy>>]

PerturbD(polys, d, dx, dy) ==
    LET p == polys[d + 1]
    IN  [polys EXCEPT ![d + 1] =
            <<p[1] + dx, p[2] + dy, p[3], p[4], p[5], p[6], p[7], p[8]>>]

Perturb(polys, idx, dx, dy) ==
    PerturbD(PerturbC(PerturbB(PerturbA(polys, idx[1], dx, dy),
                               idx[2], dx, dy),
                      idx[3], dx, dy),
             idx[4], dx, dy)

\* lines 925-927
GeneratedMesh(dims, polys) == [n \in 1..Len(dims) |-> <<dims[n], polys[n]>>]

\* list[i] of Python is defined for -len(list) <= i < len(list)
IndexInRange(list, i) == -Len(list) <= i /\ i < Len(list)

\* the operations called so far, with op added (the first MaxCalls are kept)
Recorded(log, op) == IF Len(log) < MaxCalls THEN Append(log, op) ELSE log

DistortIdle ==
    /\ d_pc = "idle"
    /\ d_result = "none"
    /\ dimensions = <<>>
    /\ polygons = <<>>
    /\ polygon_indices = <<>>
    /\ d_next = 1
    /\ draws = <<>>
    /\ generated_mesh = <<>>

DistortInit ==
    /\ d_image \in ImageSizes
    /\ \E g \in Grids : grid_width = g[1] /\ grid_height = g[2]
    /\ magnitude \in 0..MaxMagnitude
    /\ InteriorVertices(grid_width, grid_height) * magnitude <= MaxDrawWork
    /\ randomise_magnitude = TRUE
    /\ DistortIdle

\* Distort objects whose grid_width or grid_height is zero or negative
\* (lines 832-838 store the arguments as they are given)
DistortInvalidInit ==
    /\ d_image \in ImageSizes
    /\ grid_width \in (-MaxInvalid)..2
    /\ grid_height \in (-MaxInvalid)..2
    /\ grid_width <= 0 \/ grid_height <= 0
    /\ magnitude \in 0..MaxMagnitude
    /\ randomise_magnitude = TRUE
    /\ DistortIdle

\* a worked example: a 100 x 100 image, a 4 x 4 grid, magnitude 3
DistortExampleInit ==
    /\ d_image = <<100, 100>>
    /\ grid_width = 4
    /\ grid_height = 4
    /\ magnitude = 3
    /\ randomise_magnitude = TRUE
    /\ DistortIdle

\* lines 842-895: everything before the perturbation loop; the divisions of
\* lines 847-848 raise ZeroDivisionError for a grid dimension of 0
DistortBegin ==
    /\ d_pc \in {"idle", "done"}
    /\ IF grid_width = 0 \/ grid_height = 0
       THEN /\ dimensions' = <<>>
            /\ polygons' = <<>>
            /\ polygon_indices' = <<>>
            /\ d_result' = "ZeroDivisionError"
            /\ d_pc' = "done"
       ELSE /\ LET dims == Dimensions(d_image[1], d_image[2], grid_width, grid_height)
               IN  /\ dimensions' = dims
                   /\ polygons' = Polygons(dims)
            /\ polygon_indices' = PolygonIndices(grid_width, grid_height)
            /\ d_result' = "none"
            /\ d_pc' = "loop"
    /\ d_next' = 1
    /\ draws' = <<>>
    /\ generated_mesh' = <<>>
    /\ calls' = Recorded(calls, "Distort")
    /\ UNCHANGED <<d_image, grid_width, grid_height, magnitude, randomise_magnitude>>
    /\ UNCHANGED <<probability, skewVars, rotateVars, rangeVars, shearVars>>

\* lines 897-923: one iteration, with its two random.randint draws; polygons[a]
\* ... polygons[d] raise IndexError for an index outside the list
DistortPerturb ==
    /\ d_pc = "loop"
    /\ d_next <= Len(polygon_indices)
    /\ \E draw \in DrawValues(magnitude, Len(polygon_indices)) :
          LET dx == draw[1]
              dy == draw[2]
              idx == polygon_indices[d_next]
          IN  /\ draws' = Append(draws, <<dx, dy>>)
              /\ IF \A k \in 1..4 : IndexInRange(polygons, idx[k])
                 THEN /\ polygons' = Perturb(polygons, idx, dx, dy)
                      /\ d_next' = d_next + 1
                      /\ UNCHANGED <<d_pc, d_result>>
                 ELSE /\ d_result' = "IndexError"
                      /\ d_pc' = "done"
                      /\ UNCHANGED <<polygons, d_next>>
    /\ UNCHANGED <<d_image, grid_width, grid_height, magnitude,
                   randomise_magnitude, dimensions, polygon_indices,
                   generated_mesh>>
    /\ UNCHANGED <<probability, calls, skewVars, rotateVars, rangeVars, shearVars>>

\* lines 925-929: the mesh is assembled and handed to image.transform
DistortEmit ==
    /\ d_pc = "loop"
    /\ d_next > Len(polygon_indices)
    /\ generated_mesh' = GeneratedMesh(dimensions, polygons)
    /\ d_result' = "image"
    /\ d_pc' = "done"
    /\ UNCHANGED <<d_image, grid_width, grid_height, magnitude,
                   randomise_magnitude, dimensions, polygons, polygon_indices,
                   d_next, draws>>
    /\ UNCHANGED <<probability, calls, skewVars, rotateVars, rangeVars, shearVars>>

\* the call has returned: its locals are gone, the object can be called again
DistortReturn ==
    /\ d_pc = "done"
    /\ d_pc' = "idle"
    /\ d_result' = "none"
    /\ dimensions' = <<>>
    /\ polygons' = <<>>
    /\ polygon_indices' = <<>>
    /\ d_next' = 1
    /\ draws' = <<>>
    /\ generated_mesh' = <<>>
    /\ UNCHANGED <<d_image, grid_width, grid_height, magnitude, randomise_magnitude>>
    /\ UNCHANGED <<probability, calls, skewVars, rotateVars, rangeVars, shearVars>>

DistortNext == DistortBegin \/ DistortPerturb \/ DistortEmit \/ DistortReturn

-----------------------------------------------------------------------------
(* Skew.perform_operation, lines 292-417 *)

SkewTypes == {"TILT", "TILT_LEFT_RIGHT", "TILT_TOP_BOTTOM", "CORNER"}

\* lines 306-311: x1 = 0, x2 = h, y1 = 0, y2 = w
OriginalPlane(w, h) ==
    LET x1 == RInt(0)
        x2 == RInt(h)
        y1 == RInt(0)
        y2 == RInt(w)
    IN  <<<<y1, x1>>, <<y2, x1>>, <<y2, x2>>, <<y1, x2>>>>

\* line 313
MaxSkewAmount(w, h) == IF w > h THEN w ELSE h

\* mutant: `/` as the integer division it is without `from __future__ import division`
TrueDivide_Floor(a, b) == RInt(a \div b)

\* line 318: `/` is true division (line 20)
TrueDivide(a, b) == Rat(a, b)

\* lines 315-319: the values skew_amount can take
SkewAmounts(w, h, m) ==
    IF m = 0
    THEN {RInt(a) : a \in 1..MaxSkewAmount(w, h)}
    ELSE {TrueDivide(MaxSkewAmount(w, h), m)}

\* lines 326-331 and 360: the values skew_direction can take
SkewDirections(type) ==
    CASE type = "TILT" -> 0..3
      [] type = "TILT_LEFT_RIGHT" -> 0..1
      [] type = "TILT_TOP_BOTTOM" -> 2..3
      [] type = "CORNER" -> 0..7

\* mutant: the left tilt also moves its top-left corner along the other axis
NewPlane_LeftTiltSlip(w, h, type, direction, amount) ==
    LET x1 == RInt(0)
        x2 == RInt(h)
        y1 == RInt(0)
        y2 == RInt(w)
    IN  IF type = "CORNER"
        THEN CASE direction = 0 -> <<<<RSub(y1, amount), x1>>, <<y2, x1>>, <<y2, x2>>, <<y1, x2>>>>
               [] direction = 1 -> <<<<y1, RSub(x1, amount)>>, <<y2, x1>>, <<y2, x2>>, <<y1, x2>>>>
               [] direction = 2 -> <<<<y1, x1>>, <<RAdd(y2, amount), x1>>, <<y2, x2>>, <<y1, x2>>>>
               [] direction = 3 -> <<<<y1, x1>>, <<y2, RSub(x1, amount)>>, <<y2, x2>>, <<y1, x2>>>>
               [] direction = 4 -> <<<<y1, x1>>, <<y2, x1>>, <<RAdd(y2, amount), x2>>, <<y1, x2>>>>
               [] direction = 5 -> <<<<y1, x1>>, <<y2, x1>>, <<y2, RAdd(x2, amount)>>, <<y1, x2>>>>
               [] direction = 6 -> <<<<y1, x1>>, <<y2, x1>>, <<y2, x2>>, <<RSub(y1, amount), x2>>>>
               [] direction = 7 -> <<<<y1, x1>>, <<y2, x1>>, <<y2, x2>>, <<y1, RAdd(x2, amount)>>>>
        ELSE CASE direction = 0 ->
                    <<<<RSub(y1, amount), RSub(x1, amount)>>, <<y2, x1>>, <<y2, x2>>,
                      <<y1, RAdd(x2, amount)>>>>
               [] direction = 1 ->
                    <<<<y1, x1>>, <<y2, RSub(x1, amount)>>, <<y2, RAdd(x2, amount)>>,
                      <<y1, x2>>>>
               [] direction = 2 ->
                    <<<<RSub(y1, amount), x1>>, <<RAdd(y2, amount), x1>>, <<y2, x2>>,
                      <<y1, x2>>>>
               [] direction = 3 ->
                    <<<<y1, x1>>, <<y2, x1>>, <<RAdd(y2, amount), x2>>,
                      <<RSub(y1, amount), x2>>>>

\* lines 333-356 (the tilts) and 362-385 (the corners)
NewPlane(w, h, type, direction, amount) ==
    LET x1 == RInt(0)
        x2 == RInt(h)
        y1 == RInt(0)
        y2 == RInt(w)
    IN  IF type = "CORNER"
        THEN CASE direction = 0 -> <<<<RSub(y1, amount), x1>>, <<y2, x1>>, <<y2, x2>>, <<y1, x2>>>>
               [] direction = 1 -> <<<<y1, RSub(x1, amount)>>, <<y2, x1>>, <<y2, x2>>, <<y1, x2>>>>
               [] direction = 2 -> <<<<y1, x1>>, <<RAdd(y2, amount), x1>>, <<y2, x2>>, <<y1, x2>>>>
               [] direction = 3 -> <<<<y1, x1>>, <<y2, RSub(x1, amount)>>, <<y2, x2>>, <<y1, x2>>>>
               [] direction = 4 -> <<<<y1, x1>>, <<y2, x1>>, <<RAdd(y2, amount), x2>>, <<y1, x2>>>>
               [] direction = 5 -> <<<<y1, x1>>, <<y2, x1>>, <<y2, RAdd(x2, amount)>>, <<y1, x2>>>>
               [] direction = 6 -> <<<<y1, x1>>, <<y2, x1>>, <<y2, x2>>, <<RSub(y1, amount), x2>>>>
               [] direction = 7 -> <<<<y1, x1>>, <<y2, x1>>, <<y2, x2>>, <<y1, RAdd(x2, amount)>>>>
        ELSE CASE direction = 0 ->
                    <<<<y1, RSub(x1, amount)>>, <<y2, x1>>, <<y2, x2>>,
                      <<y1, RAdd(x2, amount)>>>>
               [] direction = 1 ->
                    <<<<y1, x1>>, <<y2, RSub(x1, amount)>>, <<y2, RAdd(x2, amount)>>,
                      <<y1, x2>>>>
               [] direction = 2 ->
                    <<<<RSub(y1, amount), x1>>, <<RAdd(y2, amount), x1>>, <<y2, x2>>,
                      <<y1, x2>>>>
               [] direction = 3 ->
                    <<<<y1, x1>>, <<y2, x1>>, <<RAdd(y2, amount), x2>>,
                      <<RSub(y1, amount), x2>>>>

\* mutant: the products of the last two columns lose their minus sign
MatrixRows_SignSlip(p1, p2) ==
    << <<p1[1], p1[2], RInt(1), RInt(0), RInt(0), RInt(0),
         RMul(p2[1], p1[1]), RMul(p2[1], p1[2])>>,
       <<RInt(0), RInt(0), RInt(0), p1[1], p1[2], RInt(1),
         RMul(p2[2], p1[1]), RMul(p2[2], p1[2])>> >>

\* lines 405-406: the two rows of one pair (p1 of new_plane, p2 of original_plane)
MatrixRows(p1, p2) ==
    << <<p1[1], p1[2], RInt(1), RInt(0), RInt(0), RInt(0),
         RNeg(RMul(p2[1], p1[1])), RNeg(RMul(p2[1], p1[2]))>>,
       <<RInt(0), RInt(0), RInt(0), p1[1], p1[2], RInt(1),
         RNeg(RMul(p2[2], p1[1])), RNeg(RMul(p2[2], p1[2]))>> >>

\* lines 402-408: the 8 x 8 matrix A, rows in the order of zip(new_plane, original_plane)
SkewMatrix(newp, origp) ==
    SubSeq([i \in 1..8 |->
               MatrixRows(newp[(i + 1) \div 2], origp[(i + 1) \div 2])[2 - (i % 2)]],
           1, 8)

\* line 409: B = np.array(original_plane).reshape(8)
SkewB(origp) == SubSeq([i \in 1..8 |-> origp[(i + 1) \div 2][2 - (i % 2)]], 1, 8)

\* Gauss-Jordan elimination of the augmented matrix M (8 rows, 9 columns),
\* from column col on; <<>> when a column has no pivot (the matrix is singular)
RECURSIVE Eliminate(_, _)
Eliminate(M, col) ==
    IF col > 8 THEN M
    ELSE LET candidates == {r \in col..8 : ~RIsZero(M[r][col])}
         IN  IF candidates = {} THEN <<>>
             ELSE LET p    == CHOOSE r \in candidates : \A q \in candidates : r <= q
                      top  == M[p]
                      prow == SubSeq([j \in 1..9 |-> RDiv(top[j], top[col])], 1, 9)
                      rowOf(r) ==
                          IF r = col THEN prow
                          ELSE LET old == IF r = p THEN M[col] ELSE M[r]
                               IN  SubSeq([j \in 1..9 |->
                                             RSub(old[j], RMul(old[col], prow[j]))],
                                          1, 9)
                      next == SubSeq([r \in 1..8 |-> rowOf(r)], 1, 8)
                  IN  Eliminate(next, col + 1)

\* line 411: np.dot(np.linalg.inv(A.T * A) * A.T, B).  A is square, so whenever
\* A.T * A has an inverse inv(A.T * A) * A.T is inv(A), and the product is the one
\* solution k of A k = B; <<>> when A (and so A.T * A) is singular.
Solve(A, B) ==
    LET aug == SubSeq([i \in 1..8 |->
                          SubSeq([j \in 1..9 |-> IF j = 9 THEN B[i] ELSE A[i][j]], 1, 9)],
                      1, 8)
        red == Eliminate(aug, 1)
    IN  IF red = <<>> THEN <<>> ELSE SubSeq([i \in 1..8 |-> red[i][9]], 1, 8)

SkewIdle ==
    /\ s_pc = "idle"
    /\ skew_amount = RInt(0)
    /\ skew_direction = 0
    /\ original_plane = <<>>
    /\ new_plane = <<>>
    /\ coefficients = <<>>
    /\ s_result = "none"

SkewImageSizes == {<<2, 2>>, <<3, 2>>, <<2, 5>>}

SkewInit ==
    /\ s_image \in SkewImageSizes
    /\ skew_type \in SkewTypes
    /\ skew_magnitude \in (-MaxSkewMagnitude)..MaxSkewMagnitude
    /\ SkewIdle

\* lines 304-417: one call.  A singular system makes np.linalg.inv either raise
\* LinAlgError or, when rounding hides the zero pivot, return numbers that are
\* then used as coefficients (kept as <<>>: no particular values).
SkewPerform ==
    /\ s_pc = "idle"
    /\ \E amount \in SkewAmounts(s_image[1], s_image[2], skew_magnitude),
          direction \in SkewDirections(skew_type) :
          LET origp == OriginalPlane(s_image[1], s_image[2])
              newp  == NewPlane(s_image[1], s_image[2], skew_type, direction, amount)
              k     == Solve(SkewMatrix(newp, origp), SkewB(origp))
          IN  /\ skew_amount' = amount
              /\ skew_direction' = direction
              /\ original_plane' = origp
              /\ new_plane' = newp
              /\ coefficients' = k
              /\ IF k # <<>>
                 THEN s_result' = "image"
                 ELSE s_result' \in {"LinAlgError", "image"}
    /\ s_pc' = "done"
    /\ calls' = Recorded(calls, "Skew")
    /\ UNCHANGED <<s_image, skew_type, skew_magnitude>>
    /\ UNCHANGED <<probability, distortVars, rotateVars, rangeVars, shearVars>>

\* mutant: the call leaves the magnitude of the object cleared
SkewReturn_MagnitudeCleared ==
    /\ s_pc = "done"
    /\ s_pc' = "idle"
    /\ skew_amount' = RInt(0)
    /\ skew_direction' = 0
    /\ original_plane' = <<>>
    /\ new_plane' = <<>>
    /\ coefficients' = <<>>
    /\ s_result' = "none"
    /\ skew_magnitude' = 0
    /\ UNCHANGED <<s_image, skew_type>>
    /\ UNCHANGED <<probability, calls, distortVars, rotateVars, rangeVars, shearVars>>

\* the call has returned: its locals are gone, the object can be called again
SkewReturn ==
    /\ s_pc = "done"
    /\ s_pc' = "idle"
    /\ skew_amount' = RInt(0)
    /\ skew_direction' = 0
    /\ original_plane' = <<>>
    /\ new_plane' = <<>>
    /\ coefficients' = <<>>
    /\ s_result' = "none"
    /\ UNCHANGED <<s_image, skew_type, skew_magnitude>>
    /\ UNCHANGED <<probability, calls, distortVars, rotateVars, rangeVars, shearVars>>

SkewNext == SkewPerform \/ SkewReturn

-----------------------------------------------------------------------------
(* Images and the PIL primitives Rotate uses.  An image is its size and its   *)
(* rows of pixels; a pixel of the input is named by its position, so that an  *)
(* exact rearrangement of the pixels can be told from any other result.  An   *)
(* image made by resampling has `resampled` set and no pixels listed.         *)

InputImage(w, h) ==
    [size |-> <<w, h>>,
     px |-> [y \in 1..h |-> [x \in 1..w |-> <<x - 1, y - 1>>]],
     resampled |-> FALSE]

NoImage == [size |-> <<0, 0>>, px |-> <<>>, resampled |-> FALSE]

Resampled(w, h) == [size |-> <<w, h>>, px |-> <<>>, resampled |-> TRUE]

\* the pixel at column x, row y (0-based)
Pixel(img, x, y) == img.px[y + 1][x + 1]

\* image.rotate(angle, expand=True) for the multiples of 90 degrees: the exact
\* counter-clockwise rearrangement, on a canvas of the swapped size if needed
RotateExpand(img, angle) ==
    LET w == img.size[1]
        h == img.size[2]
        a == angle % 360
    IN  CASE a = 0 -> img
          [] a = 90 ->
                [size |-> <<h, w>>,
                 px |-> [y \in 1..w |-> [x \in 1..h |-> Pixel(img, w - y, x - 1)]],
                 resampled |-> img.resampled]
          [] a = 180 ->
                [size |-> <<w, h>>,
                 px |-> [y \in 1..h |-> [x \in 1..w |-> Pixel(img, w - x, h - y)]],
                 resampled |-> img.resampled]
          [] a = 270 ->
                [size |-> <<h, w>>,
                 px |-> [y \in 1..w |-> [x \in 1..h |-> Pixel(img, y - 1, h - x)]],
                 resampled |-> img.resampled]

\* a crop box whose right edge is left of its left edge, or whose lower edge
\* is above its upper edge
Inverted(box) == box[3] < box[1] \/ box[4] < box[2]

\* image.crop(box): the pixels of the box for a box inside an image whose
\* pixels are known; otherwise an image of the size of the box (of width or
\* height 0 when the box is inverted on that axis), filled in by PIL
Crop(img, box) ==
    LET bw == IF box[3] > box[1] THEN box[3] - box[1] ELSE 0
        bh == IF box[4] > box[2] THEN box[4] - box[2] ELSE 0
        inside == /\ 0 <= box[1] /\ box[1] <= box[3] /\ box[3] <= img.size[1]
                  /\ 0 <= box[2] /\ box[2] <= box[4] /\ box[4] <= img.size[2]
    IN  IF inside /\ ~img.resampled
        THEN [size |-> <<box[3] - box[1], box[4] - box[2]>>,
              px |-> [y \in 1..(box[4] - box[2]) |->
                         [x \in 1..(box[3] - box[1]) |->
                             Pixel(img, box[1] + x - 1, box[2] + y - 1)]],
              resampled |-> img.resampled]
        ELSE Resampled(bw, bh)

\* image.resize(size, resample=BICUBIC): the same pixels at the same size,
\* resampled ones otherwise
Resize(img, size) ==
    IF img.size = size THEN img ELSE Resampled(size[1], size[2])

-----------------------------------------------------------------------------
(* Rotate.perform_operation, lines 449-504 *)

\* math.sin(math.radians(angle)) at the angles of the model, as fractions.
\* Lines 494-498 use the sines only through sin_angle_a / sin_angle_b, and the
\* fractions of an angle and of its complement are chosen for that quotient:
\* tan 5 = 7/80, tan 30 = 56/97, tan 45 = 1, tan 60 = 97/56, each within 0.02
\* percent of the float; for the images and angles of the model every crop
\* box below is the box the floats give.  At 180 the float is 1.2e-16 and not
\* 0; every value computed from it below is rounded to the integer the exact
\* 0 gives.
SinDeg(angle) ==
    CASE angle = 0 -> RInt(0)
      [] angle = 5 -> Rat(14, 161)
      [] angle = 30 -> Rat(56, 112)
      [] angle = 45 -> Rat(70, 99)
      [] angle = 60 -> Rat(97, 112)
      [] angle = 85 -> Rat(160, 161)
      [] angle = 90 -> RInt(1)
      [] angle = -90 -> RInt(-1)
      [] angle = 180 -> RInt(0)

\* the angles between 0 and 90 degrees the model rotates by
AcuteAngles == {5, 30, 45, 60}

\* the least integer >= q
Ceil(q) == -((-q[1]) \div q[2])

\* the greatest integer <= q
Floor(q) == q[1] \div q[2]

\* the sizes image.rotate(angle, expand=True) can give the canvas: the size of
\* the image or its transpose at the multiples of 90 degrees; otherwise the
\* bounding box of the rotated corners rounded outwards, which is one pixel
\* more on an axis when PIL rounds the two sides of the box separately
ExpandedSizes(w, h, angle) ==
    LET a == angle % 360
    IN  IF a \in {0, 180} THEN {<<w, h>>}
        ELSE IF a \in {90, 270} THEN {<<h, w>>}
        ELSE LET t  == Abs(angle)
                 sn == SinDeg(t)
                 cs == SinDeg(90 - t)
                 X0 == Ceil(RAdd(RMul(RInt(w), cs), RMul(RInt(h), sn)))
                 Y0 == Ceil(RAdd(RMul(RInt(w), sn), RMul(RInt(h), cs)))
             IN  {X0, X0 + 1} \X {Y0, Y0 + 1}

\* the images image.rotate(angle, expand=True, resample=BICUBIC) can return
RotateExpandImages(img, angle) ==
    IF angle % 90 = 0
    THEN {RotateExpand(img, angle)}
    ELSE {Resampled(size[1], size[2]) :
             size \in ExpandedSizes(img.size[1], img.size[2], angle)}

\* int(round(q)): round half to even (line 22 imports the Python 3 round)
Round(q) ==
    LET fl   == q[1] \div q[2]
        rem2 == 2 * (q[1] - fl * q[2])
    IN  IF rem2 < q[2] THEN fl
        ELSE IF rem2 > q[2] THEN fl + 1
        ELSE IF fl % 2 = 0 THEN fl ELSE fl + 1

\* line 486
AngleA(rot) == Abs(rot)

\* line 487
AngleB(rot) == 90 - AngleA(rot)

\* mutant: the sine of angle_b is taken for angle_a
SinAngleA_OfAngleB(rot) == SinDeg(AngleB(rot))

\* line 490
SinAngleA(rot) == SinDeg(AngleA(rot))

\* line 491
SinAngleB(rot) == SinDeg(AngleB(rot))

\* lines 494-496, for sin_angle_b # 0; line 496 reads (E / 1) - (sin_a^2 / sin_b^2)
CropE(rot, X, Y) ==
    LET ratio == RDiv(SinAngleA(rot), SinAngleB(rot))
        first == RMul(ratio, RSub(RInt(Y), RMul(RInt(X), ratio)))
    IN  RSub(RDiv(first, RInt(1)),
             RDiv(RMul(SinAngleA(rot), SinAngleA(rot)),
                  RMul(SinAngleB(rot), SinAngleB(rot))))

\* lines 497-498
CropA(rot, X, Y) ==
    LET ratio == RDiv(SinAngleA(rot), SinAngleB(rot))
        B     == RSub(RInt(X), CropE(rot, X, Y))
    IN  RMul(ratio, B)

\* line 501: the box given to image.crop
CropBox(E, A, X, Y) ==
    <<Round(E), Round(A), Round(RSub(RInt(X), E)), Round(RSub(RInt(Y), A))>>

Rotations == {-1, 0, 90, -90, 180, 5, 30, -30, 45, 60}

\* a worked example: a 200 x 100 image, rotated by 30 degrees
RotateExampleSize == <<200, 100>>
RotateExampleAngles == {30, -30}

RotateImageSizes ==
    ((1..MaxRotateWidth) \X (1..MaxRotateHeight)) \cup {RotateExampleSize}

RotateIdle ==
    /\ r_pc = "idle"
    /\ r_steps = <<>>
    /\ r_canvas = <<>>
    /\ r_E = RInt(0)
    /\ r_A = RInt(0)
    /\ r_box = <<>>
    /\ r_result = [kind |-> "none", image |-> NoImage]

RotateInit ==
    /\ \E size \in RotateImageSizes : r_image = InputImage(size[1], size[2])
    /\ rotation \in Rotations
    /\ r_image.size = RotateExampleSize => rotation \in RotateExampleAngles
    /\ RotateIdle

\* lines 469-472: rotation == -1, a random multiple of 90 degrees
RotateRandom90 ==
    /\ r_pc = "idle"
    /\ rotation = -1
    /\ \E random_factor \in 1..3 :
          r_result' = [kind |-> "image",
                       image |-> RotateExpand(r_image, 90 * random_factor)]
    /\ r_steps' = <<"rotate">>
    /\ r_pc' = "done"
    /\ calls' = Recorded(calls, "Rotate")
    /\ UNCHANGED <<r_image, rotation, r_canvas, r_E, r_A, r_box>>
    /\ UNCHANGED <<probability, distortVars, skewVars, rangeVars, shearVars>>

\* lines 473-504: any other rotation; sin_angle_a / sin_angle_b of line 494
\* raises ZeroDivisionError when sin_angle_b is 0.0.  image.crop is given the
\* box as it is computed: for an inverted box it raises ValueError or returns
\* an image of no area (which resize then stretches), depending on the PIL
\* that is installed.
RotateByAngle ==
    /\ r_pc = "idle"
    /\ rotation # -1
    /\ \E rotated \in RotateExpandImages(r_image, rotation) :
          LET x == r_image.size[1]
              y == r_image.size[2]
              X == rotated.size[1]
              Y == rotated.size[2]
          IN  /\ r_canvas' = <<X, Y>>
              /\ IF RIsZero(SinAngleB(rotation))
                 THEN /\ r_steps' = <<"rotate">>
                      /\ r_result' = [kind |-> "ZeroDivisionError", image |-> NoImage]
                      /\ UNCHANGED <<r_E, r_A, r_box>>
                 ELSE LET E   == CropE(rotation, X, Y)
                          A   == CropA(rotation, X, Y)
                          box == CropBox(E, A, X, Y)
                      IN  /\ r_E' = E
                          /\ r_A' = A
                          /\ r_box' = box
                          /\ \/ /\ r_steps' = <<"rotate", "crop", "resize">>
                                /\ r_result' =
                                      [kind |-> "image",
                                       image |-> Resize(Crop(rotated, box), <<x, y>>)]
                             \/ /\ Inverted(box)
                                /\ r_steps' = <<"rotate", "crop">>
                                /\ r_result' = [kind |-> "ValueError", image |-> NoImage]
    /\ r_pc' = "done"
    /\ calls' = Recorded(calls, "Rotate")
    /\ UNCHANGED <<r_image, rotation>>
    /\ UNCHANGED <<probability, distortVars, skewVars, rangeVars, shearVars>>

\* the call has returned: its locals are gone, the object can be called again
RotateReturn ==
    /\ r_pc = "done"
    /\ r_pc' = "idle"
    /\ r_steps' = <<>>
    /\ r_canvas' = <<>>
    /\ r_E' = RInt(0)
    /\ r_A' = RInt(0)
    /\ r_box' = <<>>
    /\ r_result' = [kind |-> "none", image |-> NoImage]
    /\ UNCHANGED <<r_image, rotation>>
    /\ UNCHANGED <<probability, calls, distortVars, skewVars, rangeVars, shearVars>>

RotateNext == RotateRandom90 \/ RotateByAngle \/ RotateReturn

-----------------------------------------------------------------------------
(* RotateRange, lines 520-587 *)

\* the values given to the constructor as max_left_rotation, max_right_rotation
RangeArguments == {-30, 3, 5, 30, 90}

\* the values of random.randint(lo, hi) the model follows: the drawn angles
\* whose sines SinDeg has
RangeDraws(lo, hi) == {a \in lo..hi : Abs(a) \in AcuteAngles \cup {90}}

RangeIdle ==
    /\ rr_pc = "idle"
    /\ rr_rotation = 0
    /\ rr_canvas = <<>>
    /\ rr_E = RInt(0)
    /\ rr_A = RInt(0)
    /\ rr_box = <<>>
    /\ rr_result = [kind |-> "none", image |-> NoImage]

\* lines 535-537: the attributes are -abs(max_left_rotation), abs(max_right_rotation)
RangeInit ==
    /\ \E w \in 1..MaxRotateWidth, h \in 1..MaxRotateHeight :
          rr_image = InputImage(w, h)
    /\ \E l \in RangeArguments : max_left_rotation = -Abs(l)
    /\ \E r \in RangeArguments : max_right_rotation = Abs(r)
    /\ RangeIdle

\* lines 539-587: one call.  Both random.randint calls run before the side is
\* chosen, and each raises ValueError for an empty range; lines 576-580 are
\* the computation of lines 494-498 of Rotate.
RangePerform ==
    /\ rr_pc = "idle"
    /\ IF max_left_rotation > -5 \/ max_right_rotation < 5
       THEN /\ rr_result' = [kind |-> "ValueError", image |-> NoImage]
            /\ UNCHANGED <<rr_rotation, rr_canvas, rr_E, rr_A, rr_box>>
       ELSE \E random_left \in RangeDraws(max_left_rotation, -5),
               random_right \in RangeDraws(5, max_right_rotation),
               left_or_right \in 0..1 :
               LET rot == IF left_or_right = 0 THEN random_left ELSE random_right
               IN  /\ rr_rotation' = rot
                   /\ \E rotated \in RotateExpandImages(rr_image, rot) :
                         LET x == rr_image.size[1]
                             y == rr_image.size[2]
                             X == rotated.size[1]
                             Y == rotated.size[2]
                         IN  /\ rr_canvas' = <<X, Y>>
                             /\ IF RIsZero(SinAngleB(rot))
                                THEN /\ rr_result' = [kind |-> "ZeroDivisionError",
                                                      image |-> NoImage]
                                     /\ UNCHANGED <<rr_E, rr_A, rr_box>>
                                ELSE LET E   == CropE(rot, X, Y)
                                         A   == CropA(rot, X, Y)
                                         box == CropBox(E, A, X, Y)
                                     IN  /\ rr_E' = E
                                         /\ rr_A' = A
                                         /\ rr_box' = box
                                         /\ \/ rr_result' =
                                                  [kind |-> "image",
                                                   image |-> Resize(Crop(rotated, box),
                                                                    <<x, y>>)]
                                            \/ /\ Inverted(box)
                                               /\ rr_result' = [kind |-> "ValueError",
                                                                image |-> NoImage]
    /\ rr_pc' = "done"
    /\ calls' = Recorded(calls, "RotateRange")
    /\ UNCHANGED <<rr_image, max_left_rotation, max_right_rotation>>
    /\ UNCHANGED <<probability, distortVars, skewVars, rotateVars, shearVars>>

\* the call has returned: its locals are gone, the object can be called again
RangeReturn ==
    /\ rr_pc = "done"
    /\ rr_pc' = "idle"
    /\ rr_rotation' = 0
    /\ rr_canvas' = <<>>
    /\ rr_E' = RInt(0)
    /\ rr_A' = RInt(0)
    /\ rr_box' = <<>>
    /\ rr_result' = [kind |-> "none", image |-> NoImage]
    /\ UNCHANGED <<rr_image, max_left_rotation, max_right_rotation>>
    /\ UNCHANGED <<probability, calls, distortVars, skewVars, rotateVars, shearVars>>

RangeNext == RangePerform \/ RangeReturn

-----------------------------------------------------------------------------
(* Shear.perform_operation, lines 706-810 *)

\* lines 727-728: the locals that shadow the attributes of the same names
LocalMaxShearLeft == -20
LocalMaxShearRight == 20

\* lines 730-731: int(random.uniform(left - 1, right + 1)) is an integer of
\* (left - 1)..right (int truncates towards 0, and the upper end is not
\* reached); every value but -1 is then increased by 1
AnglesToShear(left, right) ==
    {IF t # -1 THEN t + 1 ELSE t : t \in (left - 1)..right}

\* math.tan(math.radians(angle)) for the angles of AnglesToShear(-20, 20), as
\* fractions within 0.07 percent of the float; with them every ceil, floor and
\* round below is the integer the float gives, for the image sizes up to 11
TanDeg(angle) ==
    LET a == Abs(angle)
        t == CASE a = 1 -> Rat(4, 229)
               [] a = 2 -> Rat(11, 315)
               [] a = 3 -> Rat(12, 229)
               [] a = 4 -> Rat(10, 143)
               [] a = 5 -> Rat(7, 80)
               [] a = 6 -> Rat(35, 333)
               [] a = 7 -> Rat(48, 391)
               [] a = 8 -> Rat(26, 185)
               [] a = 9 -> Rat(51, 322)
               [] a = 10 -> Rat(70, 397)
               [] a = 11 -> Rat(76, 391)
               [] a = 12 -> Rat(44, 207)
               [] a = 13 -> Rat(91, 394)
               [] a = 14 -> Rat(93, 373)
               [] a = 15 -> Rat(97, 362)
               [] a = 16 -> Rat(80, 279)
               [] a = 17 -> Rat(48, 157)
               [] a = 18 -> Rat(103, 317)
               [] a = 19 -> Rat(94, 273)
               [] a = 20 -> Rat(99, 272)
               [] a = 21 -> Rat(119, 310)
    IN  IF angle < 0 THEN RNeg(t) ELSE t

RAbs(q) == <<Abs(q[1]), q[2]>>

\* mutant: the shift is rounded down for positive angles too
ShearX_FloorAlways(width, height, angle) ==
    LET phi0   == TanDeg(angle)
        raw    == RMul(phi0, RInt(height))
        shift0 == RInt(Floor(raw))
        neg    == angle <= 0
        shift  == IF neg THEN RAbs(shift0) ELSE shift0
        offset == IF neg THEN RInt(0) ELSE shift0
        phi1   == IF neg THEN RNeg(RAbs(phi0)) ELSE phi0
    IN  [phi |-> phi1,
         shift |-> shift,
         offset |-> offset,
         matrix |-> <<RInt(1), phi1, RNeg(offset), RInt(0), RInt(1), RInt(0)>>,
         canvas |-> <<Round(RAdd(RInt(width), shift)), height>>,
         box |-> <<RAbs(shift), RInt(0), RInt(width), RInt(height)>>]

\* lines 756-787: the locals of the branch direction == "x" when the image is
\* transformed and cropped
ShearX(width, height, angle) ==
    LET phi0   == TanDeg(angle)
        raw    == RMul(phi0, RInt(height))
        shift0 == IF RLess(RInt(0), raw) THEN RInt(Ceil(raw)) ELSE RInt(Floor(raw))
        neg    == angle <= 0
        shift  == IF neg THEN RAbs(shift0) ELSE shift0
        offset == IF neg THEN RInt(0) ELSE shift0
        phi1   == IF neg THEN RNeg(RAbs(phi0)) ELSE phi0
    IN  [phi |-> phi1,
         shift |-> shift,
         offset |-> offset,
         matrix |-> <<RInt(1), phi1, RNeg(offset), RInt(0), RInt(1), RInt(0)>>,
         canvas |-> <<Round(RAdd(RInt(width), shift)), height>>,
         box |-> <<RAbs(shift), RInt(0), RInt(width), RInt(height)>>]

\* mutant: a negative angle keeps its matrix offset
ShearY_OffsetKept(width, height, angle) ==
    LET phi0   == TanDeg(angle)
        shift0 == RMul(phi0, RInt(width))
        neg    == angle <= 0
        shift  == IF neg THEN RAbs(shift0) ELSE shift0
        offset == IF neg THEN shift ELSE shift0
        phi1   == IF neg THEN RNeg(RAbs(phi0)) ELSE phi0
    IN  [phi |-> phi1,
         shift |-> shift,
         offset |-> offset,
         matrix |-> <<RInt(1), RInt(0), RInt(0), phi1, RInt(1), RNeg(offset)>>,
         canvas |-> <<width, Round(RAdd(RInt(height), shift))>>,
         box |-> <<RInt(0), RAbs(shift), RInt(width), RInt(height)>>]

\* lines 791-808: the same for the branch direction == "y"
ShearY(width, height, angle) ==
    LET phi0   == TanDeg(angle)
        shift0 == RMul(phi0, RInt(width))
        neg    == angle <= 0
        shift  == IF neg THEN RAbs(shift0) ELSE shift0
        offset == IF neg THEN RInt(0) ELSE shift0
        phi1   == IF neg THEN RNeg(RAbs(phi0)) ELSE phi0
    IN  [phi |-> phi1,
         shift |-> shift,
         offset |-> offset,
         matrix |-> <<RInt(1), RInt(0), RInt(0), phi1, RInt(1), RNeg(offset)>>,
         canvas |-> <<width, Round(RAdd(RInt(height), shift))>>,
         box |-> <<RInt(0), RAbs(shift), RInt(width), RInt(height)>>]

\* the box as image.crop uses it: each coordinate rounded to an integer
PilBox(box) == <<Round(box[1]), Round(box[2]), Round(box[3]), Round(box[4])>>

ShearIdle ==
    /\ sh_pc = "idle"
    /\ angle_to_shear = 0
    /\ shear_direction = "none"
    /\ shear_phi = RInt(0)
    /\ shift_in_pixels = RInt(0)
    /\ matrix_offset = RInt(0)
    /\ transform_matrix = <<>>
    /\ sh_canvas = <<>>
    /\ sh_box = <<>>
    /\ sh_result = [kind |-> "none", size |-> <<0, 0>>]

\* the pairs (max_shear_left, max_shear_right) given to the constructor
ShearBounds == {<<-5, 5>>, <<-20, 20>>, <<-25, 25>>}

\* lines 699-704 store the bounds as they are given
ShearInit ==
    /\ sh_image \in (1..MaxShearWidth) \X (1..MaxShearHeight)
    /\ \E b \in ShearBounds : max_shear_left = b[1] /\ max_shear_right = b[2]
    /\ ShearIdle

\* lines 725-810: one call.  For an inverted box image.crop raises ValueError
\* or returns an image of no area (which resize then stretches), depending on
\* the PIL that is installed.
ShearPerform ==
    /\ sh_pc = "idle"
    /\ \E angle \in AnglesToShear(LocalMaxShearLeft, LocalMaxShearRight),
          dir \in {"x", "y"} :
          LET width  == sh_image[1]
              height == sh_image[2]
              l == IF dir = "x" THEN ShearX(width, height, angle)
                                ELSE ShearY(width, height, angle)
          IN  /\ angle_to_shear' = angle
              /\ shear_direction' = dir
              /\ shear_phi' = l.phi
              /\ shift_in_pixels' = l.shift
              /\ matrix_offset' = l.offset
              /\ transform_matrix' = l.matrix
              /\ sh_canvas' = l.canvas
              /\ sh_box' = l.box
              /\ \/ sh_result' = [kind |-> "image", size |-> <<width, height>>]
                 \/ /\ Inverted(PilBox(l.box))
                    /\ sh_result' = [kind |-> "ValueError", size |-> <<0, 0>>]
    /\ sh_pc' = "done"
    /\ calls' = Recorded(calls, "Shear")
    /\ UNCHANGED <<sh_image, max_shear_left, max_shear_right>>
    /\ UNCHANGED <<probability, distortVars, skewVars, rotateVars, rangeVars>>

\* the call has returned: its locals are gone, the object can be called again
ShearReturn ==
    /\ sh_pc = "done"
    /\ sh_pc' = "idle"
    /\ angle_to_shear' = 0
    /\ shear_direction' = "none"
    /\ shear_phi' = RInt(0)
    /\ shift_in_pixels' = RInt(0)
    /\ matrix_offset' = RInt(0)
    /\ transform_matrix' = <<>>
    /\ sh_canvas' = <<>>
    /\ sh_box' = <<>>
    /\ sh_result' = [kind |-> "none", size |-> <<0, 0>>]
    /\ UNCHANGED <<sh_image, max_shear_left, max_shear_right>>
    /\ UNCHANGED <<probability, calls, distortVars, skewVars, rotateVars, rangeVars>>

ShearNext == ShearPerform \/ ShearReturn

-----------------------------------------------------------------------------
(* Specifications, one per operation: the operation objects share no state,  *)
(* so each is exercised on its own while the other two stay as constructed.  *)

\* the probability given to each constructor (Operation.__init__ stores it;
\* no perform_operation reads it)
OperationNames == {"Distort", "Skew", "Rotate", "RotateRange", "Shear"}

Untouched ==
    /\ probability = [op \in OperationNames |-> 1]
    /\ calls = <<>>

DistortParked ==
    /\ d_image = <<1, 1>>
    /\ grid_width = 1
    /\ grid_height = 1
    /\ magnitude = 0
    /\ randomise_magnitude = TRUE
    /\ DistortIdle

SkewParked ==
    /\ s_image = <<1, 1>>
    /\ skew_type = "TILT"
    /\ skew_magnitude = 1
    /\ SkewIdle

RotateParked ==
    /\ r_image = InputImage(1, 1)
    /\ rotation = 0
    /\ RotateIdle

RangeParked ==
    /\ rr_image = InputImage(1, 1)
    /\ max_left_rotation = -5
    /\ max_right_rotation = 5
    /\ RangeIdle

ShearParked ==
    /\ sh_image = <<1, 1>>
    /\ max_shear_left = -20
    /\ max_shear_right = 20
    /\ ShearIdle

InitDistort ==
    Untouched /\ DistortInit /\ SkewParked /\ RotateParked /\ RangeParked /\ ShearParked

InitDistortExample ==
    /\ Untouched
    /\ DistortInit \/ DistortExampleInit
    /\ SkewParked /\ RotateParked /\ RangeParked /\ ShearParked

InitDistortInvalid ==
    /\ Untouched
    /\ DistortInvalidInit
    /\ SkewParked /\ RotateParked /\ RangeParked /\ ShearParked

InitSkew ==
    Untouched /\ SkewInit /\ DistortParked /\ RotateParked /\ RangeParked /\ ShearParked

InitRotate ==
    Untouched /\ RotateInit /\ DistortParked /\ SkewParked /\ RangeParked /\ ShearParked

InitRange ==
    Untouched /\ RangeInit /\ DistortParked /\ SkewParked /\ RotateParked /\ ShearParked

InitShear ==
    Untouched /\ ShearInit /\ DistortParked /\ SkewParked /\ RotateParked /\ RangeParked

SpecDistort == InitDistort /\ [][DistortNext]_vars

SpecDistortExample == InitDistortExample /\ [][DistortNext]_vars

SpecDistortInvalid == InitDistortInvalid /\ [][DistortNext]_vars

SpecSkew == InitSkew /\ [][SkewNext]_vars

SpecRotate == InitRotate /\ [][RotateNext]_vars

SpecRange == InitRange /\ [][RangeNext]_vars

SpecShear == InitShear /\ [][ShearNext]_vars

-----------------------------------------------------------------------------
(* One object of each operation, called in any order.  perform_operation is  *)
(* synchronous: a call starts only when no call of another object is running *)
(* or waiting to be returned from.                                           *)

OthersIdle(op) ==
    /\ op # "Distort" => d_pc = "idle"
    /\ op # "Skew" => s_pc = "idle"
    /\ op # "Rotate" => r_pc = "idle"
    /\ op # "RotateRange" => rr_pc = "idle"
    /\ op # "Shear" => sh_pc = "idle"

InitAll ==
    /\ Untouched
    /\ DistortInit
    /\ d_image = <<2, 3>> /\ grid_width = 2 /\ grid_height = 2 /\ magnitude = 1
    /\ SkewInit
    /\ s_image = <<3, 2>> /\ skew_type = "CORNER" /\ skew_magnitude = 2
    /\ RotateInit
    /\ r_image = InputImage(2, 1) /\ rotation \in {-1, 30}
    /\ RangeInit
    /\ rr_image = InputImage(1, 2) /\ max_left_rotation = -30 /\ max_right_rotation = 5
    /\ ShearInit
    /\ sh_image = <<2, 2>> /\ max_shear_left = -5 /\ max_shear_right = 5

CallDistort == OthersIdle("Distort") /\ DistortNext

CallSkew == OthersIdle("Skew") /\ SkewNext

CallRotate == OthersIdle("Rotate") /\ RotateNext

CallRange == OthersIdle("RotateRange") /\ RangeNext

CallShear == OthersIdle("Shear") /\ ShearNext

NextAll == CallDistort \/ CallSkew \/ CallRotate \/ CallRange \/ CallShear

SpecAll == InitAll /\ [][NextAll]_vars

-----------------------------------------------------------------------------
(* Reading the emitted mesh *)

ImageW == d_image[1]
ImageH == d_image[2]

\* the mesh entry of the cell in column c, row r (both 0-based)
MeshBox(c, r) == generated_mesh[r * grid_width + c + 1][1]
MeshQuad(c, r) == generated_mesh[r * grid_width + c + 1][2]

\* the corners of a bounding box (x1, y1, x2, y2), by compass position
BoxCorner(box, k) ==
    CASE k = "NW" -> <<box[1], box[2]>>
      [] k = "SW" -> <<box[1], box[4]>>
      [] k = "SE" -> <<box[3], box[4]>>
      [] k = "NE" -> <<box[3], box[2]>>

\* the corner of an emitted quadrilateral that belongs to that box corner
QuadCorner(quad, k) ==
    CASE k = "NW" -> <<quad[1], quad[2]>>
      [] k = "SW" -> <<quad[3], quad[4]>>
      [] k = "SE" -> <<quad[5], quad[6]>>
      [] k = "NE" -> <<quad[7], quad[8]>>

CornerNames == {"NW", "SW", "SE", "NE"}

OnOuterBoundary(p) ==
    p[1] = 0 \/ p[1] = ImageW \/ p[2] = 0 \/ p[2] = ImageH

SomeNonZeroDraw == \E i \in 1..Len(draws) : draws[i][1] # 0 /\ draws[i][2] # 0

-----------------------------------------------------------------------------
(* Claims about Distort *)

\* C1: in the emitted mesh, for grid_width >= 2 and grid_height >= 2, the four
\* cells around every interior grid vertex have the same unperturbed vertex at
\* their matching corners, and all four emit it displaced by one and the same
\* (dx, dy) within the magnitude.
C1_NoTearing ==
    d_pc = "done" =>
        \A c \in 1..(grid_width - 1), r \in 1..(grid_height - 1) :
            LET v == BoxCorner(MeshBox(c - 1, r - 1), "SE")
            IN  /\ BoxCorner(MeshBox(c, r - 1), "SW") = v
                /\ BoxCorner(MeshBox(c - 1, r), "NE") = v
                /\ BoxCorner(MeshBox(c, r), "NW") = v
                /\ \E dx \in (-magnitude)..magnitude, dy \in (-magnitude)..magnitude :
                      LET moved == <<v[1] + dx, v[2] + dy>>
                      IN  /\ QuadCorner(MeshQuad(c - 1, r - 1), "SE") = moved
                          /\ QuadCorner(MeshQuad(c, r - 1), "SW") = moved
                          /\ QuadCorner(MeshQuad(c - 1, r), "NE") = moved
                          /\ QuadCorner(MeshQuad(c, r), "NW") = moved

C1_Witness ==
    /\ d_pc = "done"
    /\ grid_width = 3
    /\ grid_height = 3
    /\ Len(draws) = 4
    /\ \A i \in 1..4 : draws[i][1] # 0 /\ draws[i][2] # 0
    /\ draws[1] # draws[4]

\* C2 as stated, for any grid: every quadrilateral corner whose bounding-box
\* corner lies on x = 0, x = w, y = 0 or y = h is emitted undisplaced.
C2_BorderFixedAnyGrid ==
    d_pc = "done" =>
        \A n \in 1..Len(generated_mesh), k \in CornerNames :
            OnOuterBoundary(BoxCorner(generated_mesh[n][1], k))
                => QuadCorner(generated_mesh[n][2], k)
                       = BoxCorner(generated_mesh[n][1], k)

\* C2 amended: the same, for grids with grid_width <= w and grid_height <= h
\* (every cell at least one pixel wide and high).
C2_BorderFixed ==
    (d_pc = "done" /\ grid_width <= ImageW /\ grid_height <= ImageH) =>
        \A n \in 1..Len(generated_mesh), k \in CornerNames :
            OnOuterBoundary(BoxCorner(generated_mesh[n][1], k))
                => QuadCorner(generated_mesh[n][2], k)
                       = BoxCorner(generated_mesh[n][1], k)

C2_Witness ==
    /\ d_pc = "done"
    /\ grid_width >= 2 /\ grid_width <= ImageW
    /\ grid_height >= 2 /\ grid_height <= ImageH
    /\ magnitude = MaxMagnitude
    /\ SomeNonZeroDraw
    /\ \E n \in 1..Len(generated_mesh), k \in CornerNames :
          QuadCorner(generated_mesh[n][2], k) # BoxCorner(generated_mesh[n][1], k)

\* C3: for 1 <= grid_width <= w and 1 <= grid_height <= h the mesh has
\* grid_width * grid_height bounding boxes, every pixel lies in exactly one of
\* them, the cells before the last column / row are floor(w / grid_width) wide
\* and floor(h / grid_height) high, and the last column / row ends at w / h.
C3_ExactTiling ==
    (d_pc = "done" /\ grid_width <= ImageW /\ grid_height <= ImageH) =>
        /\ Len(generated_mesh) = grid_width * grid_height
        /\ \A px \in 0..(ImageW - 1), py \in 0..(ImageH - 1) :
              Cardinality({n \in 1..Len(generated_mesh) :
                              LET b == generated_mesh[n][1]
                              IN  /\ b[1] <= px /\ px < b[3]
                                  /\ b[2] <= py /\ py < b[4]}) = 1
        /\ \A c \in 0..(grid_width - 1), r \in 0..(grid_height - 1) :
              LET b == MeshBox(c, r)
              IN  /\ c < grid_width - 1 => b[3] - b[1] = ImageW \div grid_width
                  /\ r < grid_height - 1 => b[4] - b[2] = ImageH \div grid_height
                  /\ c = grid_width - 1 =>
                        /\ b[3] = ImageW
                        /\ b[3] - b[1] = (ImageW \div grid_width) + (ImageW % grid_width)
                  /\ r = grid_height - 1 =>
                        /\ b[4] = ImageH
                        /\ b[4] - b[2] = (ImageH \div grid_height) + (ImageH % grid_height)

C3_Witness ==
    /\ d_pc = "done"
    /\ grid_width >= 2 /\ grid_width <= ImageW /\ ImageW % grid_width # 0
    /\ grid_height >= 2 /\ grid_height <= ImageH /\ ImageH % grid_height # 0

\* the distinct outer-boundary vertices of the mesh's bounding boxes
BorderVertices ==
    {p \in {BoxCorner(generated_mesh[n][1], k) :
                n \in 1..Len(generated_mesh), k \in CornerNames} :
        OnOuterBoundary(p)}

\* C4: one call draws exactly (grid_width-1)*(grid_height-1) displacements, each
\* component within [-magnitude, magnitude], and every corner of every emitted
\* quadrilateral is within magnitude of its bounding-box corner on each axis.
\* For the 100 x 100 image with a 4 x 4 grid and magnitude 3: 16 cells of
\* 25 x 25, 9 draws, and 16 border vertices, none of them displaced.
C4_OneDrawPerVertex ==
    d_pc = "done" =>
        /\ Len(draws) = (grid_width - 1) * (grid_height - 1)
        /\ \A i \in 1..Len(draws) :
              /\ Abs(draws[i][1]) <= magnitude
              /\ Abs(draws[i][2]) <= magnitude
        /\ \A n \in 1..Len(generated_mesh), k \in CornerNames :
              LET q == QuadCorner(generated_mesh[n][2], k)
                  b == BoxCorner(generated_mesh[n][1], k)
              IN  /\ Abs(q[1] - b[1]) <= magnitude
                  /\ Abs(q[2] - b[2]) <= magnitude
        /\ (d_image = <<100, 100>> /\ grid_width = 4 /\ grid_height = 4
                /\ magnitude = 3) =>
              /\ Len(generated_mesh) = 16
              /\ \A n \in 1..16 :
                    LET b == generated_mesh[n][1]
                    IN  b[3] - b[1] = 25 /\ b[4] - b[2] = 25
              /\ Len(draws) = 9
              /\ \A i \in 1..9 : Abs(draws[i][1]) <= 3 /\ Abs(draws[i][2]) <= 3
              /\ Cardinality(BorderVertices) = 16
              /\ \A n \in 1..16, k \in CornerNames :
                    OnOuterBoundary(BoxCorner(generated_mesh[n][1], k))
                        => QuadCorner(generated_mesh[n][2], k)
                               = BoxCorner(generated_mesh[n][1], k)

C4_Witness ==
    /\ d_pc = "done"
    /\ d_image = <<100, 100>>
    /\ grid_width = 4 /\ grid_height = 4 /\ magnitude = 3
    /\ Len(draws) = 9
    /\ \E i, j \in 1..9 : draws[i] = <<3, -3>> /\ draws[j] = <<-3, 3>>

-----------------------------------------------------------------------------
(* Claims about Skew *)

SkewW == s_image[1]
SkewH == s_image[2]

\* C5: with magnitude unset or zero the skew distance is an integer in
\* 1..max(w, h); with magnitude m > 0 it is max(w, h) / m exactly, and for the
\* same image a larger m gives a strictly smaller skew distance.
C5_SkewDistance ==
    s_pc = "done" =>
        /\ skew_magnitude = 0 =>
              /\ skew_amount[2] = 1
              /\ skew_amount[1] \in 1..MaxSkewAmount(SkewW, SkewH)
        /\ skew_magnitude > 0 =>
              /\ RMul(skew_amount, RInt(skew_magnitude))
                    = RInt(MaxSkewAmount(SkewW, SkewH))
              /\ \A m \in 1..MaxSkewMagnitude :
                    \A other \in SkewAmounts(SkewW, SkewH, m) :
                       /\ m > skew_magnitude => RLess(other, skew_amount)
                       /\ m < skew_magnitude => RLess(skew_amount, other)

\* the skew distance is not a whole number: max(w, h) is not a multiple of m
C5_Witness ==
    /\ s_pc = "done"
    /\ skew_magnitude = 2
    /\ skew_amount[2] # 1

\* the corners (1 = top-left, 2 = top-right, 3 = bottom-right, 4 = bottom-left)
\* at which a quad differs from the quad of the image corners
MovedCorners(quad, w, h) ==
    LET corners == <<<<RInt(0), RInt(0)>>, <<RInt(w), RInt(0)>>,
                     <<RInt(w), RInt(h)>>, <<RInt(0), RInt(h)>>>>
    IN  {i \in 1..4 : quad[i] # corners[i]}

\* the point differs from the image corner on exactly one axis, by +d or -d
MovedAlongOneAxisBy(point, corner, d) ==
    LET movedX == RSub(point[1], corner[1])
        movedY == RSub(point[2], corner[2])
    IN  \/ RIsZero(movedY) /\ ~RIsZero(movedX) /\ movedX \in {d, RNeg(d)}
        \/ RIsZero(movedX) /\ ~RIsZero(movedY) /\ movedY \in {d, RNeg(d)}

\* C6: TILT picks one of 4 directions, TILT_LEFT_RIGHT one of 2, TILT_TOP_BOTTOM
\* one of 2 others, CORNER one of 8, and different directions give different
\* quads; the source quad is (top-left, top-right, bottom-right, bottom-left) of
\* the image and the destination quad differs from it at exactly one corner
\* (CORNER) or two corners (tilts), each moved by + or - the skew distance along
\* exactly one axis.
C6_DirectionTable ==
    s_pc = "done" =>
        /\ skew_type = "TILT" => skew_direction \in {0, 1, 2, 3}
        /\ skew_type = "TILT_LEFT_RIGHT" => skew_direction \in {0, 1}
        /\ skew_type = "TILT_TOP_BOTTOM" => skew_direction \in {2, 3}
        /\ skew_type = "CORNER" => skew_direction \in {0, 1, 2, 3, 4, 5, 6, 7}
        /\ \A d \in SkewDirections(skew_type) :
              d # skew_direction =>
                 NewPlane(SkewW, SkewH, skew_type, d, skew_amount) # new_plane
        /\ original_plane = <<<<RInt(0), RInt(0)>>, <<RInt(SkewW), RInt(0)>>,
                              <<RInt(SkewW), RInt(SkewH)>>, <<RInt(0), RInt(SkewH)>>>>
        /\ Len(new_plane) = 4
        /\ Cardinality(MovedCorners(new_plane, SkewW, SkewH))
              = IF skew_type = "CORNER" THEN 1 ELSE 2
        /\ \A i \in MovedCorners(new_plane, SkewW, SkewH) :
              MovedAlongOneAxisBy(new_plane[i], original_plane[i], skew_amount)

C6_Witness ==
    /\ s_pc = "done"
    /\ skew_type = "TILT_LEFT_RIGHT"
    /\ skew_direction = 0
    /\ skew_magnitude = 0
    /\ MovedCorners(new_plane, SkewW, SkewH) = {1, 4}

\* p, q and r lie on one line (two equal points included)
Collinear(p, q, r) ==
    RIsZero(RSub(RMul(RSub(q[1], p[1]), RSub(r[2], p[2])),
                 RMul(RSub(q[2], p[2]), RSub(r[1], p[1]))))

\* no three of the four points of the quad lie on one line
GenericPosition(quad) ==
    \A i, j, l \in 1..4 :
        (i < j /\ j < l) => ~Collinear(quad[i], quad[j], quad[l])

\* (a, ..., h) = k maps the point p to the point q:
\* q = ((a x + b y + c) / (g x + h y + 1), (d x + e y + f) / (g x + h y + 1))
MapsTo(k, p, q) ==
    LET den == RAdd(RAdd(RMul(k[7], p[1]), RMul(k[8], p[2])), RInt(1))
        nx  == RAdd(RAdd(RMul(k[1], p[1]), RMul(k[2], p[2])), k[3])
        ny  == RAdd(RAdd(RMul(k[4], p[1]), RMul(k[5], p[2])), k[6])
    IN  /\ ~RIsZero(den)
        /\ RDiv(nx, den) = q[1]
        /\ RDiv(ny, den) = q[2]

\* C7 as stated: with the perturbed corners in generic position, the eight
\* coefficients map each corner of the original quad to the perturbed corner of
\* the same index.
C7_MapsOriginalToPerturbed ==
    (s_pc = "done" /\ GenericPosition(new_plane)) =>
        /\ s_result = "image"
        /\ Len(coefficients) = 8
        /\ \A i \in 1..4 : MapsTo(coefficients, original_plane[i], new_plane[i])

\* C7 amended: the eight coefficients map each perturbed corner to the corner
\* of the original quad of the same index (the direction image.transform uses:
\* from a position of the output to the position it is read from).
C7_MapsPerturbedToOriginal ==
    (s_pc = "done" /\ GenericPosition(new_plane)) =>
        /\ s_result = "image"
        /\ Len(coefficients) = 8
        /\ \A i \in 1..4 : MapsTo(coefficients, new_plane[i], original_plane[i])

C7_Witness ==
    /\ s_pc = "done"
    /\ skew_type = "CORNER"
    /\ skew_direction = 5
    /\ skew_magnitude = 2
    /\ GenericPosition(new_plane)
    /\ Len(coefficients) = 8
    /\ \E i \in 1..8 : coefficients[i][2] # 1

\* C8: when three of the four perturbed corners lie on one line (the system is
\* singular) the call ends with a SingularTransform error and no coefficients.
C8_SingularTransformSurfaced ==
    (s_pc = "done" /\ ~GenericPosition(new_plane)) =>
        /\ s_result = "SingularTransform"
        /\ coefficients = <<>>

-----------------------------------------------------------------------------
(* Claims about Rotate *)

\* C9: with rotation 0, E = 0 and A = 0, the canvas has the size of the input,
\* the crop window is the whole canvas (0, 0, X, Y), and the image returned is
\* the input image.
C9_ZeroRotationIdentity ==
    (r_pc = "done" /\ rotation = 0) =>
        /\ r_E = RInt(0)
        /\ r_A = RInt(0)
        /\ r_canvas = r_image.size
        /\ r_box = <<0, 0, r_canvas[1], r_canvas[2]>>
        /\ r_result.kind = "image"
        /\ r_result.image = r_image

C9_Witness ==
    /\ r_pc = "done"
    /\ rotation = 0
    /\ r_image.size = <<MaxRotateWidth, MaxRotateHeight>>
    /\ r_steps = <<"rotate", "crop", "resize">>

\* C10: for a configured rotation that is a non-zero multiple of 90 degrees the
\* call returns the image rotated by exactly that angle, and runs neither the
\* crop nor the resize.
C10_RightAngleNoCropResize ==
    (r_pc = "done" /\ rotation # 0 /\ rotation % 90 = 0) =>
        /\ r_result.kind = "image"
        /\ r_result.image = RotateExpand(r_image, rotation)
        /\ \A i \in 1..Len(r_steps) : r_steps[i] \notin {"crop", "resize"}

\* C11: in Rotate and RotateRange, a call whose angle has |angle| >= 90 ends
\* with an InvalidRotationAngle error: no other error, no image, and E, A and
\* the crop box are never computed.
C11_InvalidRotationAngleSignalled ==
    /\ (r_pc = "done" /\ rotation # -1 /\ Abs(rotation) >= 90) =>
          /\ r_result.kind = "InvalidRotationAngle"
          /\ r_box = <<>>
    /\ (rr_pc = "done" /\ Abs(rr_rotation) >= 90) =>
          /\ rr_result.kind = "InvalidRotationAngle"
          /\ rr_box = <<>>

\* the box lies inside the X by Y canvas, with left < right and upper < lower
ProperBoxInside(box, X, Y) ==
    /\ 0 <= box[1] /\ box[1] < box[3] /\ box[3] <= X
    /\ 0 <= box[2] /\ box[2] < box[4] /\ box[4] <= Y

\* 0 <= q < n / 2
InLowerHalf(q, n) == ~RLess(q, RInt(0)) /\ RLess(q, Rat(n, 2))

\* C12: for a rotation with 0 < |angle| < 90, 0 <= E < X/2 and 0 <= A < Y/2,
\* and the crop box lies inside the canvas with left < right and upper < lower.
C12_CropWindowInsideCanvas ==
    (r_pc = "done" /\ rotation # -1 /\ 0 < Abs(rotation) /\ Abs(rotation) < 90) =>
        /\ InLowerHalf(r_E, r_canvas[1])
        /\ InLowerHalf(r_A, r_canvas[2])
        /\ ProperBoxInside(r_box, r_canvas[1], r_canvas[2])

\* C13: every call of Rotate.perform_operation, for every rotation (-1
\* included) and every image size, returns an image of the size of the input.
C13_RotateKeepsSize ==
    r_pc = "done" =>
        /\ r_result.kind = "image"
        /\ r_result.image.size = r_image.size

-----------------------------------------------------------------------------
(* Claims about Shear *)

ShearW == sh_image[1]
ShearH == sh_image[2]

\* C14: the angle a call shears by lies within the bounds given to the
\* constructor: max_shear_left <= angle_to_shear <= max_shear_right.
C14_AngleWithinConfiguredBounds ==
    sh_pc = "done" =>
        /\ max_shear_left <= angle_to_shear
        /\ angle_to_shear <= max_shear_right

\* the locals of a call on the same image and axis with the given angle
ShearLocals(dir, angle) ==
    IF dir = "x" THEN ShearX(ShearW, ShearH, angle) ELSE ShearY(ShearW, ShearH, angle)

\* C15 as stated: for the same image and axis, the angles +p and -p give
\* different matrix offsets and different crop windows.
C15_OffsetsAndCropsDiffer ==
    (sh_pc = "done" /\ -angle_to_shear \in AnglesToShear(LocalMaxShearLeft,
                                                         LocalMaxShearRight)) =>
        LET other == ShearLocals(shear_direction, -angle_to_shear)
        IN  /\ matrix_offset # other.offset
            /\ sh_box # other.box

\* C15 amended: for the same image and axis, the angles +p and -p give
\* different matrix offsets (the shift for +p, 0 for -p) and opposite slopes in
\* the matrix, on the same canvas and with the same crop window.
C15_OffsetsDifferCropsEqual ==
    (sh_pc = "done" /\ -angle_to_shear \in AnglesToShear(LocalMaxShearLeft,
                                                         LocalMaxShearRight)) =>
        LET other == ShearLocals(shear_direction, -angle_to_shear)
        IN  /\ matrix_offset # other.offset
            /\ matrix_offset = IF angle_to_shear > 0 THEN shift_in_pixels ELSE RInt(0)
            /\ other.offset = IF angle_to_shear > 0 THEN RInt(0) ELSE other.shift
            /\ shear_phi = RNeg(other.phi)
            /\ shift_in_pixels = other.shift
            /\ sh_canvas = other.canvas
            /\ sh_box = other.box

C15_Witness ==
    /\ sh_pc = "done"
    /\ angle_to_shear = -20
    /\ shear_direction = "y"
    /\ sh_image = <<MaxShearWidth, 2>>
    /\ shift_in_pixels[2] # 1

\* the crop box has left < right and upper < lower
ProperBox(box) == RLess(box[1], box[3]) /\ RLess(box[2], box[4])

\* C17: the crop box of every call has left < right and upper < lower, or
\* else the call ends with an InvalidDimensions error.
C17_NoEmptyCrop ==
    sh_pc = "done" =>
        \/ ProperBox(sh_box)
        \/ sh_result.kind = "InvalidDimensions"

\* C20: on the x axis, with slope = tan(angle) and shift = ceil(slope * height)
\* when slope * height > 0 and floor(slope * height) otherwise: the matrix is
\* (1, slope, -offset, 0, 1, 0) with offset = shift when angle > 0 and 0
\* otherwise, the canvas is (width + |shift|, height), the crop box is
\* (|shift|, 0, width, height), and an image that is returned has the size
\* (width, height).
C20_ShearX ==
    (sh_pc = "done" /\ shear_direction = "x") =>
        LET slope  == TanDeg(angle_to_shear)
            raw    == RMul(slope, RInt(ShearH))
            shift  == IF RLess(RInt(0), raw) THEN Ceil(raw) ELSE Floor(raw)
            offset == IF angle_to_shear > 0 THEN shift ELSE 0
        IN  /\ shear_phi = slope
            /\ shift_in_pixels = RInt(Abs(shift))
            /\ matrix_offset = RInt(offset)
            /\ transform_matrix
                  = <<RInt(1), slope, RInt(-offset), RInt(0), RInt(1), RInt(0)>>
            /\ sh_canvas = <<ShearW + Abs(shift), ShearH>>
            /\ sh_box = <<RInt(Abs(shift)), RInt(0), RInt(ShearW), RInt(ShearH)>>
            /\ sh_result.kind = "image" => sh_result.size = <<ShearW, ShearH>>

C20_Witness ==
    /\ sh_pc = "done"
    /\ shear_direction = "x"
    /\ angle_to_shear = -13
    /\ sh_image = <<MaxShearWidth, MaxShearHeight>>
    /\ shift_in_pixels = RInt(1)
    /\ sh_result.kind = "image"

-----------------------------------------------------------------------------
(* Claims about Distort with an invalid grid *)

\* C16: with grid_width <= 0 or grid_height <= 0 the call ends with an
\* InvalidParameter error: no other error, and no mesh is handed on.
C16_InvalidGridSignalled ==
    (d_pc = "done" /\ (grid_width <= 0 \/ grid_height <= 0)) =>
        /\ d_result = "InvalidParameter"
        /\ generated_mesh = <<>>

-----------------------------------------------------------------------------
(* The crop formula of Rotate and RotateRange *)

\* C19: with r = sin(a) / sin(b), for every angle with sin(b) # 0 and r^2 # 1:
\* E * (1 - r^2) = r * (Y - X * r), and A = r * (X - E).
C19_CropFormula ==
    (r_pc = "done" /\ rotation # -1 /\ ~RIsZero(SinAngleB(rotation))) =>
        LET r  == RDiv(SinAngleA(rotation), SinAngleB(rotation))
            X  == RInt(r_canvas[1])
            Y  == RInt(r_canvas[2])
            r2 == RMul(r, r)
        IN  r2 # RInt(1) =>
               /\ RMul(r_E, RSub(RInt(1), r2)) = RMul(r, RSub(Y, RMul(X, r)))
               /\ r_A = RMul(r, RSub(X, r_E))

-----------------------------------------------------------------------------
(* The operation objects across calls *)

\* the attributes the constructors set
Attributes ==
    <<probability, skew_type, skew_magnitude, rotation, max_left_rotation,
      max_right_rotation, max_shear_left, max_shear_right, grid_width,
      grid_height, magnitude, randomise_magnitude>>

\* the polygons after the draws made so far, from the unperturbed ones
RECURSIVE PerturbedBy(_, _, _, _)
PerturbedBy(polys, indices, drawn, n) ==
    IF n = 0 THEN polys
    ELSE Perturb(PerturbedBy(polys, indices, drawn, n - 1),
                 indices[n], drawn[n][1], drawn[n][2])

\* what a call has computed is what the attributes, the image and the draws
\* of this call give, whatever was called before; between calls nothing of a
\* call is left
DerivedAfresh ==
    /\ d_pc = "idle" => DistortIdle
    /\ (d_pc = "done" /\ d_result = "image") =>
          LET dims == Dimensions(d_image[1], d_image[2], grid_width, grid_height)
              idxs == PolygonIndices(grid_width, grid_height)
          IN  /\ Len(draws) = Len(idxs)
              /\ generated_mesh
                    = GeneratedMesh(dims, PerturbedBy(Polygons(dims), idxs, draws,
                                                      Len(draws)))
    /\ s_pc = "idle" => SkewIdle
    /\ s_pc = "done" =>
          /\ skew_amount \in SkewAmounts(s_image[1], s_image[2], skew_magnitude)
          /\ skew_direction \in SkewDirections(skew_type)
          /\ original_plane = OriginalPlane(s_image[1], s_image[2])
          /\ new_plane = NewPlane(s_image[1], s_image[2], skew_type,
                                  skew_direction, skew_amount)
          /\ coefficients = Solve(SkewMatrix(new_plane, original_plane),
                                  SkewB(original_plane))
    /\ r_pc = "idle" => RotateIdle
    /\ (r_pc = "done" /\ r_box # <<>>) =>
          /\ r_canvas \in ExpandedSizes(r_image.size[1], r_image.size[2], rotation)
          /\ r_E = CropE(rotation, r_canvas[1], r_canvas[2])
          /\ r_A = CropA(rotation, r_canvas[1], r_canvas[2])
          /\ r_box = CropBox(r_E, r_A, r_canvas[1], r_canvas[2])
    /\ rr_pc = "idle" => RangeIdle
    /\ (rr_pc = "done" /\ rr_box # <<>>) =>
          /\ rr_rotation \in max_left_rotation..max_right_rotation
          /\ rr_canvas \in ExpandedSizes(rr_image.size[1], rr_image.size[2],
                                         rr_rotation)
          /\ rr_E = CropE(rr_rotation, rr_canvas[1], rr_canvas[2])
          /\ rr_A = CropA(rr_rotation, rr_canvas[1], rr_canvas[2])
          /\ rr_box = CropBox(rr_E, rr_A, rr_canvas[1], rr_canvas[2])
    /\ sh_pc = "idle" => ShearIdle
    /\ sh_pc = "done" =>
          LET l == IF shear_direction = "x"
                   THEN ShearX(sh_image[1], sh_image[2], angle_to_shear)
                   ELSE ShearY(sh_image[1], sh_image[2], angle_to_shear)
          IN  /\ shear_phi = l.phi
              /\ shift_in_pixels = l.shift
              /\ matrix_offset = l.offset
              /\ transform_matrix = l.matrix
              /\ sh_canvas = l.canvas
              /\ sh_box = l.box

\* C18: no step of any perform_operation of Skew, Rotate, RotateRange, Shear
\* and Distort changes a configured attribute of any operation object, for any
\* number of calls in any order; and the geometry of a call (skew amount,
\* planes, coefficients, crop window, shear locals, mesh) is derived in that
\* call from the attributes, the image and the call's own draws.
C18_AttributesUnchanged ==
    [](DerivedAfresh) /\ [][Attributes' = Attributes]_vars

\* a Distort call and later a Skew call, with calls in between
C18_Witness ==
    /\ Len(calls) = MaxCalls
    /\ calls[1] = "Distort"
    /\ calls[Len(calls)] = "Skew"
    /\ s_pc = "done"
    /\ Len(coefficients) = 8
    /\ d_pc = "idle"

-----------------------------------------------------------------------------
(* The y branch of Shear against its x branch *)

\* C21: on the y axis, with slope = tan(angle) and shift = ceil(slope * width)
\* when slope * width > 0 and floor(slope * width) otherwise: the offset is
\* shift when angle > 0 and 0 otherwise, the canvas is (width, height + |shift|),
\* the crop box is (0, |shift|, width, height) with integer coordinates, and
\* for a square image shift, offset, canvas and crop box are those of the x
\* branch with x and y exchanged.
C21_ShearYTransposed ==
    (sh_pc = "done" /\ shear_direction = "y") =>
        LET slope  == TanDeg(angle_to_shear)
            raw    == RMul(slope, RInt(ShearW))
            shift  == IF RLess(RInt(0), raw) THEN Ceil(raw) ELSE Floor(raw)
            offset == IF angle_to_shear > 0 THEN shift ELSE 0
            x      == ShearX(ShearW, ShearH, angle_to_shear)
        IN  /\ shift_in_pixels = RInt(Abs(shift))
            /\ matrix_offset = RInt(offset)
            /\ sh_canvas = <<ShearW, ShearH + Abs(shift)>>
            /\ sh_box = <<RInt(0), RInt(Abs(shift)), RInt(ShearW), RInt(ShearH)>>
            /\ \A k \in 1..4 : sh_box[k][2] = 1
            /\ ShearW = ShearH =>
                  /\ shift_in_pixels = x.shift
                  /\ matrix_offset = x.offset
                  /\ sh_canvas = <<x.canvas[2], x.canvas[1]>>
                  /\ sh_box = <<x.box[2], x.box[1], x.box[4], x.box[3]>>

-----------------------------------------------------------------------------
(* The corner order of the quadrilaterals of Distort *)

\* the corner at position p (1..4) of a quadrilateral (x, y, x, y, x, y, x, y)
QuadPoint(quad, p) == <<quad[2 * p - 1], quad[2 * p]>>

\* the order in which Skew lists the corners of a rectangle, read off its
\* original_plane for a 2 by 1 image
SkewCornerOrder ==
    [p \in 1..4 |->
        CHOOSE k \in CornerNames :
            BoxCorner(<<0, 0, 2, 1>>, k)
                = <<OriginalPlane(2, 1)[p][1][1], OriginalPlane(2, 1)[p][2][1]>>]

\* line 890: the order in which a polygon lists the corners of its cell
MeshCornerOrder == <<"NW", "SW", "SE", "NE">>

\* the grid vertex (column, row) at corner k of the cell in column c, row r
GridVertexOf(c, r, k) ==
    CASE k = "NW" -> <<c, r>>
      [] k = "NE" -> <<c + 1, r>>
      [] k = "SW" -> <<c, r + 1>>
      [] k = "SE" -> <<c + 1, r + 1>>

\* the (dx, dy) drawn for a grid vertex: interior vertices are drawn for row
\* by row, the others never
Displacement(v) ==
    IF /\ 1 <= v[1] /\ v[1] <= grid_width - 1
       /\ 1 <= v[2] /\ v[2] <= grid_height - 1
    THEN draws[(v[2] - 1) * (grid_width - 1) + v[1]]
    ELSE <<0, 0>>

\* every emitted quadrilateral lists the corners of its cell in the given
\* order, each displaced by the draw of its grid vertex
QuadsInOrder(order) ==
    (d_pc = "done" /\ d_result = "image") =>
        \A c \in 0..(grid_width - 1), r \in 0..(grid_height - 1), p \in 1..4 :
            LET b == BoxCorner(MeshBox(c, r), order[p])
                d == Displacement(GridVertexOf(c, r, order[p]))
            IN  QuadPoint(MeshQuad(c, r), p) = <<b[1] + d[1], b[2] + d[2]>>

\* C22 as stated: every emitted quadrilateral lists its corners as (top-left,
\* top-right, bottom-right, bottom-left), the order of the Skew planes.
C22_QuadsInSkewOrder ==
    /\ SkewCornerOrder = <<"NW", "NE", "SE", "SW">>
    /\ QuadsInOrder(SkewCornerOrder)

\* C22 amended: every emitted quadrilateral lists its corners as (top-left,
\* bottom-left, bottom-right, top-right); against the order of the Skew
\* planes (top-left, top-right, bottom-right, bottom-left) the second and the
\* fourth corner are exchanged.
C22_QuadsInMeshOrder ==
    /\ QuadsInOrder(MeshCornerOrder)
    /\ SkewCornerOrder = <<"NW", "NE", "SE", "SW">>
    /\ MeshCornerOrder = <<SkewCornerOrder[1], SkewCornerOrder[4],
                           SkewCornerOrder[3], SkewCornerOrder[2]>>

C22_Witness ==
    /\ d_pc = "done"
    /\ d_result = "image"
    /\ grid_width >= 2 /\ grid_height >= 2
    /\ ImageW # ImageH
    /\ SomeNonZeroDraw
    /\ QuadPoint(MeshQuad(0, 0), 3) # BoxCorner(MeshBox(0, 0), "SE")
    /\ QuadPoint(MeshQuad(0, 0), 2) = BoxCorner(MeshBox(0, 0), "SW")

=============================================================================
